---------------------------- MODULE Spec2Model ----------------------------
(***************************************************************************)
(* A model of src/main.py: the main window of the PNG-to-PDF splitter, its *)
(* draggable cut lines, and the export pipeline (crop, pad to the A3       *)
(* ratio, stage PNG files, assemble the PDF, clean up).                    *)
(*                                                                         *)
(* Arithmetic.  The code works on Python floats: a3_ratio = 297/420 and    *)
(* chunk_height = imageWidth / a3_ratio.  The model keeps every vertical   *)
(* position exactly, as an integer number of 1/297 pixel, so that          *)
(*      chunk_height            is  W * 420    units,                      *)
(*      an integer pixel row r  is  r * 297    units,                      *)
(*      int(y)                  is  y \div 297 (for y >= 0).               *)
(* Rounding error of the double arithmetic is outside the model.           *)
(*                                                                         *)
(* Files.  An image file is identified by the dimensions <<w, h>> of the   *)
(* picture it holds; NoFile stands for Python's None.                      *)
(***************************************************************************)
EXTENDS Integers, Sequences, FiniteSets

\* ------------------------------------------------------------------ bounds
MaxW == 2          \* widest image file, in pixels
MaxH == 4          \* tallest image file, in pixels
MaxLines == 2      \* "Add Line" is offered while fewer lines than this exist
MaxFailIdx == 1    \* the largest idx at which saving an intermediate PNG fails

\* --------------------------------------------------------------- constants
A3Num == 297       \* a3_ratio = 297/420
A3Den == 420

VARIABLES
    currentImgPath,   \* self.currentImgPath
    originalPixmap,   \* self.originalPixmap
    pixmapItem,       \* self.pixmapItem, the picture shown in the scene
    imageWidth,       \* self.imageWidth
    imageHeight,      \* self.imageHeight
    draggableLines,   \* self.draggableLines: the items' pos(), in list order
    tempFiles,        \* the indices idx whose __temp_export_<idx>.png is on disk
    outPdf,           \* the file at the output path
    running,          \* the event loop is alive
    last              \* what the last handler did (its locals and its signal)

vars == <<currentImgPath, originalPixmap, pixmapItem, imageWidth, imageHeight,
          draggableLines, tempFiles, outPdf, running, last>>

NoFile == <<0, 0>>
\* The image files on disk: a narrow one and a wider, taller one.
Files == {<<1, MaxH - 1>>, <<MaxW, MaxH>>}

Min(a, b) == IF a < b THEN a ELSE b
Max(a, b) == IF a > b THEN a ELSE b

\* What a handler leaves behind for the observer.
Report(op, result) ==
    [op |-> op, result |-> result, hadLines |-> 0, moved |-> 0, height |-> 0,
     split |-> <<>>, padded |-> <<>>, tall |-> 0, started |-> {}]

\* --------------------------------------------------------- DraggableLineItem

\* The flags __init__ sets on the item.  ItemSendsGeometryChanges is not among
\* them.
ItemFlags == {"ItemIsMovable", "ItemIsSelectable"}

\* DraggableLineItem(scene_width, y_pos): setPos(0, y_pos).
DraggableLineItem(y_pos) == [x |-> 0, y |-> y_pos]

\* itemChange(change, value): the x-locked point for ItemPositionHasChanged,
\* the base class's answer (the value itself) for every other change.
itemChange(change, value) ==
    IF change = "ItemPositionHasChanged"
    THEN [x |-> 0, y |-> value.y]
    ELSE value

\* Where the item is after the framework moved it to point p.  The framework
\* asks itemChange for an adjusted position with ItemPositionChange, and only
\* when the item has the ItemSendsGeometryChanges flag; ItemPositionHasChanged
\* is a notification sent after the move, whose return value it discards.
MovedTo(p) ==
    IF "ItemSendsGeometryChanges" \in ItemFlags
    THEN itemChange("ItemPositionChange", p)
    ELSE p

\* ------------------------------------------------------------- openImage

\* chunk_height = self.imageWidth / a3_ratio, in units of 1/297 pixel.
ChunkHeight(w) == w * A3Den

\* while current_pos < self.imageHeight: add a line at current_pos;
\* current_pos += chunk_height.
RECURSIVE SeedFrom(_, _, _)
SeedFrom(current_pos, chunk_height, h) ==
    IF current_pos < h * A3Num
    THEN <<DraggableLineItem(current_pos)>>
         \o SeedFrom(current_pos + chunk_height, chunk_height, h)
    ELSE <<>>

\* A seeding that starts at the top edge instead of one chunk below it.
SeedLinesFromTop(w, h) == SeedFrom(0, ChunkHeight(w), h)

\* current_pos = chunk_height, then the loop.
SeedLines(w, h) == SeedFrom(ChunkHeight(w), ChunkHeight(w), h)

\* openImage.  fileName is the dialog's answer (NoFile: cancelled); qtOk says
\* whether QPixmap decodes the file, pilOk whether Image.open does; survives
\* says whether the event loop outlives an exception that leaves the slot.
OpenImage(fileName, qtOk, pilOk, survives) ==
    /\ running
    /\ IF fileName = NoFile
       THEN /\ last' = Report("openImage", "cancelled")
            /\ UNCHANGED <<currentImgPath, originalPixmap, pixmapItem,
                           imageWidth, imageHeight, draggableLines, running>>
       ELSE IF ~qtOk
       THEN /\ last' = Report("openImage", "loadFailure")
            /\ UNCHANGED <<currentImgPath, originalPixmap, pixmapItem,
                           imageWidth, imageHeight, draggableLines, running>>
       ELSE /\ currentImgPath' = fileName
            /\ originalPixmap' = fileName
            /\ pixmapItem' = fileName
            /\ IF ~pilOk
               THEN /\ draggableLines' = <<>>
                    /\ UNCHANGED <<imageWidth, imageHeight>>
                    /\ running' = survives
                    /\ last' = Report("openImage", "uncaught")
               ELSE /\ imageWidth' = fileName[1]
                    /\ imageHeight' = fileName[2]
                    /\ draggableLines' = SeedLines(fileName[1], fileName[2])
                    /\ UNCHANGED running
                    /\ last' = [Report("openImage", "loaded")
                                EXCEPT !.hadLines = Len(draggableLines)]
    /\ UNCHANGED <<tempFiles, outPdf>>

\* --------------------------------------------------- addLineAtViewCenter

\* The scene y of the viewport's centre: above the image, inside it (row 1
\* and a half), below it.
ViewYs == {0 - A3Num, A3Num + A3Num \div 2, (MaxH + 1) * A3Num}

\* if y_pos < 0: y_pos = 0; elif y_pos > self.imageHeight: y_pos = imageHeight
ClampToImage(y_pos, h) ==
    IF y_pos < 0 THEN 0
    ELSE IF y_pos > h * A3Num THEN h * A3Num
    ELSE y_pos

AddLineAtViewCenter(viewY) ==
    /\ running
    /\ IF currentImgPath = NoFile \/ originalPixmap = NoFile
       THEN /\ last' = Report("addLine", "precondition")
            /\ UNCHANGED draggableLines
       ELSE /\ Len(draggableLines) < MaxLines
            /\ draggableLines' = Append(draggableLines,
                   DraggableLineItem(ClampToImage(viewY, imageHeight)))
            /\ last' = Report("addLine", "ok")
    /\ UNCHANGED <<currentImgPath, originalPixmap, pixmapItem, imageWidth,
                   imageHeight, tempFiles, outPdf, running>>

\* ------------------------------------------------------------ dragging

\* The points the pointer can drop a line at: above the image, inside the
\* first pixel row, and below the image, off the axis.
DropPoints ==
    {[x |-> 0, y |-> 0 - A3Num], [x |-> 0, y |-> A3Num \div 3],
     [x |-> A3Num, y |-> (MaxH + 1) * A3Num]}

\* The user drags line i (ItemIsMovable) and releases it at p.  The class has
\* no mouse-release handler, and the window no re-spacing routine.
Drag(i, p) ==
    /\ running
    /\ i \in 1..Len(draggableLines)
    /\ draggableLines' = [draggableLines EXCEPT ![i] = MovedTo(p)]
    /\ last' = [Report("drag", "ok") EXCEPT !.moved = i]
    /\ UNCHANGED <<currentImgPath, originalPixmap, pixmapItem, imageWidth,
                   imageHeight, tempFiles, outPdf, running>>

\* ------------------------------------------------------------- exportPdf

\* for lineItem in self.draggableLines: if 0 < y_val < height: append(y_val)
RECURSIVE LineYPositions(_, _)
LineYPositions(lines, height) ==
    IF lines = <<>> THEN <<>>
    ELSE LET y_val == Head(lines).y
         IN  (IF 0 < y_val /\ y_val < height * A3Num THEN <<y_val>> ELSE <<>>)
             \o LineYPositions(Tail(lines), height)

\* list.sort(): ascending.
RECURSIVE Insert(_, _)
Insert(v, s) ==
    IF s = <<>> THEN <<v>>
    ELSE IF v <= Head(s) THEN <<v>> \o s
    ELSE <<Head(s)>> \o Insert(v, Tail(s))

RECURSIVE Sort(_)
Sort(s) == IF s = <<>> THEN <<>> ELSE Insert(Head(s), Sort(Tail(s)))

\* The cut positions with the sort left out.
CutPositionsUnsorted(lines, height) ==
    <<0>> \o LineYPositions(lines, height) \o <<height * A3Num>>

\* line_y_positions.sort(); cut_positions = [0] + line_y_positions + [height]
CutPositions(lines, height) ==
    <<0>> \o Sort(LineYPositions(lines, height)) \o <<height * A3Num>>

\* int(v) for a position v >= 0.
PyInt(v) == v \div A3Num

\* The crop loop: top = int(cut[i]), bottom = int(cut[i+1]); skipped when
\* bottom <= top; else crop((0, top, width, bottom)).
RECURSIVE CropPieces(_, _)
CropPieces(cut_positions, width) ==
    IF Len(cut_positions) < 2 THEN <<>>
    ELSE LET top    == PyInt(cut_positions[1])
             bottom == PyInt(cut_positions[2])
         IN  (IF bottom <= top THEN <<>>
              ELSE <<[top |-> top, bottom |-> bottom, w |-> width]>>)
             \o CropPieces(Tail(cut_positions), width)

\* if not split_images: split_images = [original_image]
SplitImages(lines, width, height) ==
    LET pieces == CropPieces(CutPositions(lines, height), width)
    IN  IF pieces = <<>>
        THEN <<[top |-> 0, bottom |-> height, w |-> width]>>
        ELSE pieces

\* im.size
SizeOf(im) == <<im.w, im.bottom - im.top>>

\* tall_count: the pieces with w / h < a3_ratio.
TallCount(split_images) ==
    Cardinality({i \in 1..Len(split_images) :
        SizeOf(split_images[i])[1] * A3Den < SizeOf(split_images[i])[2] * A3Num})

\* The padding with the "do not shrink the original" test left out.
PadWithoutClamp(img) == <<SizeOf(img)[1], (SizeOf(img)[1] * A3Den) \div A3Num>>

\* pad_bottom_to_a3(img): the size of the white canvas the piece is pasted on.
pad_bottom_to_a3(img) ==
    LET w == SizeOf(img)[1]
        h == SizeOf(img)[2]
    IN  IF w * A3Den > h * A3Num            \* ratio > a3_ratio
        THEN LET new_h == (w * A3Den) \div A3Num     \* int(w / a3_ratio)
             IN  <<w, IF new_h < h THEN h ELSE new_h>>
        ELSE LET new_h == (w * A3Den) \div A3Num
             IN  <<w, IF new_h < h THEN h ELSE new_h>>

\* padded_images = [pad_bottom_to_a3(im) for im in split_images]
PaddedImages(split_images) ==
    [i \in 1..Len(split_images) |-> pad_bottom_to_a3(split_images[i])]

\* Where an export can fail: re-opening the source, cropping it, saving the
\* idx-th intermediate PNG, creating the output file, converting, writing.
FailPoints ==
    {[at |-> a, idx |-> 0] : a \in {"none", "open", "crop", "create",
                                    "convert", "write"}}
    \cup {[at |-> "save", idx |-> k] : k \in 0..MaxFailIdx}

\* exportPdf.  outChosen: the save dialog was answered with a path.  fail: the
\* step that raises, if any.  partial: the failing save leaves a started
\* __temp_export_<idx>.png behind.  survives: as for openImage.
ExportPdf(outChosen, fail, partial, survives) ==
    /\ running
    /\ IF currentImgPath = NoFile \/ originalPixmap = NoFile
       THEN /\ last' = Report("exportPdf", "precondition")
            /\ UNCHANGED <<tempFiles, outPdf, running>>
       ELSE IF ~outChosen
       THEN /\ last' = Report("exportPdf", "cancelled")
            /\ UNCHANGED <<tempFiles, outPdf, running>>
       ELSE IF fail.at \in {"open", "crop"}
       THEN \* Image.open and crop run before the try statement
            /\ last' = Report("exportPdf", "uncaught")
            /\ running' = survives
            /\ UNCHANGED <<tempFiles, outPdf>>
       ELSE LET width  == currentImgPath[1]      \* original_image.size
                height == currentImgPath[2]
                split_images  == SplitImages(draggableLines, width, height)
                padded_images == PaddedImages(split_images)
                n == Len(padded_images)
                \* the files saved, which are the files temp_file_list names
                saved == IF fail.at = "save" THEN 0..(fail.idx - 1)
                         ELSE 0..(n - 1)
                begun == IF fail.at = "save" /\ partial THEN {fail.idx} ELSE {}
            IN  /\ fail.at = "save" => fail.idx < n
                /\ partial => fail.at = "save"
                \* finally: os.remove every path of temp_file_list
                /\ tempFiles' = (tempFiles \ saved) \cup begun
                /\ outPdf' = CASE fail.at = "none"    -> "complete"
                               [] fail.at = "convert" -> "empty"
                               [] fail.at = "write"   -> "partial"
                               [] OTHER               -> outPdf
                /\ last' = [Report("exportPdf",
                                   IF fail.at = "none" THEN "exportDone"
                                   ELSE "exportFailed")
                            EXCEPT !.height = height,
                                   !.split = split_images,
                                   !.padded = padded_images,
                                   !.tall = TallCount(split_images),
                                   !.started = saved \cup begun]
                /\ UNCHANGED running
    /\ UNCHANGED <<currentImgPath, originalPixmap, pixmapItem, imageWidth,
                   imageHeight, draggableLines>>

\* ---------------------------------------------------------- the program

Init ==
    /\ currentImgPath = NoFile
    /\ originalPixmap = NoFile
    /\ pixmapItem = NoFile
    /\ imageWidth = 0
    /\ imageHeight = 0
    /\ draggableLines = <<>>
    /\ tempFiles = {}
    /\ outPdf = "absent"
    /\ running = TRUE
    /\ last = Report("init", "ok")

\* The answers openImage can get that differ in effect: the dialog cancelled;
\* a file QPixmap cannot decode; a file only Image.open cannot decode, with
\* the event loop surviving the exception or not; a file both decode.
OpenInputs ==
    {<<NoFile, TRUE, TRUE, TRUE>>}
    \cup {<<f, FALSE, TRUE, TRUE>> : f \in Files}
    \cup {<<f, TRUE, FALSE, s>> : f \in Files, s \in BOOLEAN}
    \cup {<<f, TRUE, TRUE, TRUE>> : f \in Files}

\* The same for exportPdf: the dialog cancelled; no failure or a failure past
\* the saves; a failing save, leaving a started file or not; a failure before
\* the try statement, with the event loop surviving it or not.
ExportInputs ==
    {<<FALSE, [at |-> "none", idx |-> 0], FALSE, TRUE>>}
    \cup {<<TRUE, f, FALSE, TRUE>> :
             f \in {g \in FailPoints : g.at \notin {"open", "crop"}}}
    \cup {<<TRUE, f, TRUE, TRUE>> : f \in {g \in FailPoints : g.at = "save"}}
    \cup {<<TRUE, f, FALSE, s>> :
             f \in {g \in FailPoints : g.at \in {"open", "crop"}},
             s \in BOOLEAN}

Next ==
    \/ \E in \in OpenInputs : OpenImage(in[1], in[2], in[3], in[4])
    \/ \E viewY \in ViewYs : AddLineAtViewCenter(viewY)
    \/ \E i \in 1..Len(draggableLines), p \in DropPoints : Drag(i, p)
    \/ \E in \in ExportInputs : ExportPdf(in[1], in[2], in[3], in[4])

Spec == Init /\ [][Next]_vars

\* ------------------------------------------------------------ properties

\* The last handler was an export that got past the save-path dialog.
ExportRan ==
    /\ last.op = "exportPdf"
    /\ last.result \in {"exportDone", "exportFailed", "uncaught"}

\* The last handler was an export that reached the try statement.
ExportStaged ==
    /\ last.op = "exportPdf"
    /\ last.result \in {"exportDone", "exportFailed"}

\* C1: whenever exportPdf has returned after the save-path dialog, none of
\* the intermediate files this run wrote or started to write is on disk.
NoIntermediateFileLeft ==
    ExportRan => last.started \cap tempFiles = {}

\* The lines that come after line m when the lines are sorted by y (lines at
\* the same y in list order).
Below(lines, m) ==
    {j \in 1..Len(lines) :
        \/ lines[j].y > lines[m].y
        \/ lines[j].y = lines[m].y /\ j > m}

\* The line right before line j in that order (j is not the first).
PreviousLine(lines, j) ==
    CHOOSE i \in 1..Len(lines) :
        /\ j \in Below(lines, i)
        /\ \A k \in 1..Len(lines) :
               (j \in Below(lines, k) /\ k # i) => i \in Below(lines, k)

\* C2: when a drag of a line completes, every line after the moved line in
\* sorted order ends at min(previous line's new y + chunkHeight, imageHeight)
\* and every other line but the moved one keeps its position.
DragRespacesBelow ==
    [][last'.op = "drag" =>
          LET m == last'.moved
              L == draggableLines'
          IN  /\ \A j \in Below(L, m) :
                     L[j].y = Min(L[PreviousLine(L, j)].y
                                     + ChunkHeight(imageWidth),
                                  imageHeight * A3Num)
              /\ \A j \in (1..Len(L)) \ (Below(L, m) \cup {m}) :
                     L[j] = draggableLines[j]]_vars

\* C3: every line of the registry has x = 0 and 0 <= y <= imageHeight.
LinesWithinImage ==
    \A i \in 1..Len(draggableLines) :
        /\ draggableLines[i].x = 0
        /\ 0 <= draggableLines[i].y
        /\ draggableLines[i].y <= imageHeight * A3Num

InteriorLines ==
    {i \in 1..Len(draggableLines) :
        0 < draggableLines[i].y /\ draggableLines[i].y < last.height * A3Num}

\* The pixel rows the cuts fall on: 0, the height, and the integer part of
\* every interior line's position.
CutRows ==
    {0, last.height}
    \cup {r \in 0..last.height :
            \E i \in InteriorLines :
                r * A3Num <= draggableLines[i].y
                /\ draggableLines[i].y < (r + 1) * A3Num}

RECURSIVE SumHeights(_)
SumHeights(pieces) ==
    IF pieces = <<>> THEN 0
    ELSE (Head(pieces).bottom - Head(pieces).top) + SumHeights(Tail(pieces))

\* C5: the slices of an export are the row ranges [top, bottom) between
\* adjacent cut rows in ascending order: full width, none empty, the first
\* starts at row 0, each starts where the one before ends, the last ends at
\* row H, the heights sum to H, and with m interior lines there are m+1
\* slices less the adjacent pairs of cuts that fall on the same row.
SlicesTileImage ==
    ExportStaged =>
        LET s == last.split
            n == Len(s)
        IN  /\ n >= 1
            /\ s[1].top = 0
            /\ s[n].bottom = last.height
            /\ \A i \in 1..n : s[i].top < s[i].bottom /\ s[i].w = currentImgPath[1]
            /\ \A i \in 1..(n - 1) : s[i].bottom = s[i + 1].top
            /\ SumHeights(s) = last.height
            /\ {s[i].top : i \in 1..n} \cup {last.height} = CutRows
            /\ n = Cardinality(CutRows) - 1
            /\ n <= Cardinality(InteriorLines) + 1

\* C5's case: an export with several slices in which a pair of cuts on the
\* same row was skipped.
SlicesWithSkippedPair ==
    /\ ExportStaged
    /\ Len(last.split) >= 2
    /\ Len(last.split) < Cardinality(InteriorLines) + 1

\* round(w / (297/420)): the integer nearest to w * 420 / 297.
RoundedTarget(w) == (2 * w * A3Den + A3Num) \div (2 * A3Num)

\* C6 as stated: every padded slice is w wide and max(h, round(w/(297/420)))
\* high.
PaddedToRoundedTarget ==
    ExportStaged =>
        \A i \in 1..Len(last.split) :
            LET w == last.split[i].w
                h == last.split[i].bottom - last.split[i].top
            IN  last.padded[i] = <<w, Max(h, RoundedTarget(w))>>

\* C6 as amended: every padded slice is w wide and max(h, t) high, where t is
\* w / (297/420) truncated to an integer (t <= w*420/297 < t + 1); so it is
\* never lower than the slice.
PaddedToTruncatedTarget ==
    ExportStaged =>
        /\ Len(last.padded) = Len(last.split)
        /\ \A i \in 1..Len(last.split) :
            LET w == last.split[i].w
                h == last.split[i].bottom - last.split[i].top
                t == CHOOSE t \in 0..(2 * w) :
                         t * A3Num <= w * A3Den /\ w * A3Den < (t + 1) * A3Num
            IN  /\ last.padded[i][1] = w
                /\ last.padded[i][2] = Max(h, t)
                /\ last.padded[i][2] >= h

\* C6's case: an export with one slice that got white rows below it and one
\* slice higher than the target, which kept its height.
PaddedAndUnpaddedSlices ==
    /\ ExportStaged
    /\ \E i, j \in 1..Len(last.split) :
           /\ last.padded[i][2] > last.split[i].bottom - last.split[i].top
           /\ last.padded[j][2] = last.split[j].bottom - last.split[j].top
           /\ last.padded[j][2] * A3Num > last.split[j].w * A3Den

\* C7: a failed export leaves the file at the output path as it was, or as a
\* completely written PDF.
FailedExportKeepsOutput ==
    [][(last'.op = "exportPdf" /\ last'.result \in {"exportFailed", "uncaught"})
          => (outPdf' = outPdf \/ outPdf' = "complete")]_vars

\* C8: a failed load is reported as a load failure and leaves the image path,
\* the pixmap, the dimensions, the scene and the registry as they were.
FailedLoadChangesNothing ==
    [][(last'.op = "openImage" /\ last'.result \in {"loadFailure", "uncaught"})
          => /\ last'.result = "loadFailure"
             /\ UNCHANGED <<currentImgPath, originalPixmap, pixmapItem,
                            imageWidth, imageHeight, draggableLines>>]_vars

\* C9: no handler ends with an exception that nothing caught.
NoUncaughtFault == last.result # "uncaught"

\* C10: while no image has been loaded successfully (the dimensions are set
\* only by a load that succeeded), add-line and export report the missing
\* image and change neither the registry, the image state nor any file.
NoImageNoEffect ==
    [][(imageWidth = 0 /\ last'.op \in {"addLine", "exportPdf"})
          => /\ last'.result = "precondition"
             /\ UNCHANGED <<currentImgPath, originalPixmap, pixmapItem,
                            imageWidth, imageHeight, draggableLines,
                            tempFiles, outPdf>>]_vars

=============================================================================
